---- MODULE Spec2Model ----
(***************************************************************************)
(* State-machine model of the az_airdrop ink! contract (src/lib.rs).       *)
(*                                                                         *)
(* The persistent state is the storage struct AzAirdrop.  Every #[ink(     *)
(* message)] is one action that runs the whole handler body in program     *)
(* order on that struct, exactly as the unit tests of src/lib.rs call it   *)
(* (az_airdrop.update_config(..) on a `&mut self`): an assignment made     *)
(* before a later `return Err(..)` stays in the struct.  A host that       *)
(* discards the storage of a call that returned Err turns such a step into *)
(* a stuttering step, which every behaviour of Spec already allows.        *)
(*                                                                         *)
(* The token contract (PSP22) is outside the repository: only the          *)
(* airdrop contract's own token balance is modelled, as `balance`.         *)
(* Balance (u128) and Timestamp (u64) are scaled down to BalanceMax and    *)
(* TimestampMax; arithmetic that overflows these panics, as it does with   *)
(* overflow checks on and in U256::as_u128.                                *)
(***************************************************************************)
EXTENDS Integers, Sequences, FiniteSets, TLC

VARIABLES
    admin,                                   \* AzAirdrop.admin
    sub_admins_mapping,                      \* keys of AzAirdrop.sub_admins_mapping
    sub_admins_as_vec,                       \* AzAirdrop.sub_admins_as_vec
    to_be_collected,                         \* AzAirdrop.to_be_collected
    start,                                   \* AzAirdrop.start
    recipients,                              \* AzAirdrop.recipients (a partial map)
    default_collectable_at_tge_percentage,   \* AzAirdrop.default_collectable_at_tge_percentage
    default_cliff_duration,                  \* AzAirdrop.default_cliff_duration
    default_vesting_duration,                \* AzAirdrop.default_vesting_duration
    now,                                     \* Self::env().block_timestamp()
    balance,                                 \* PSP22 balance_of(token, this contract)
    last                                     \* the last call: message, caller, result, returned amount

storage == <<admin, sub_admins_mapping, sub_admins_as_vec, to_be_collected, start,
             recipients, default_collectable_at_tge_percentage,
             default_cliff_duration, default_vesting_duration>>

vars == <<admin, sub_admins_mapping, sub_admins_as_vec, to_be_collected, start,
          recipients, default_collectable_at_tge_percentage,
          default_cliff_duration, default_vesting_duration, now, balance, last>>

----------------------------------------------------------------------------
(* Bounds *)

\* Balance::MAX, scaled down from 2^128 - 1
BalanceMax == 7

\* Timestamp::MAX, scaled down from 2^64 - 1
TimestampMax == 3

\* the clock stops advancing here
MaxNow == 2

\* the token's total supply (MOCK_AMOUNT in the e2e tests), scaled down
MaxSupply == 2

----------------------------------------------------------------------------
(* Input sets *)

Accounts == {"alice", "bob", "charlie"}

\* addresses passed as recipient
RecipientAddresses == {"bob", "charlie"}

\* addresses passed to sub_admins_add / sub_admins_remove
SubAdminAddresses == {"bob", "charlie"}

\* addresses passed as the new admin
AdminAddresses == {"alice", "bob"}

Amounts == {0, 1, BalanceMax}

\* u8 percentages: one below 100, and 100
Percentages == {50, 100}

\* cliff and vesting durations passed to a message
Durations == {0, 1}

None == <<>>

Some(x) == <<x>>

Option(S) == {None} \cup {Some(x) : x \in S}

unwrap(o) == o[1]

----------------------------------------------------------------------------
(* Integer helpers of the Rust standard library *)

saturating_sub(a, b) == IF a >= b THEN a - b ELSE 0

\* a sum that forgets its first operand
second_operand(a, b) == b

saturating_add(a, b) == IF a + b <= BalanceMax THEN a + b ELSE BalanceMax

checked_add(a, b) == IF a + b <= BalanceMax THEN Some(a + b) ELSE None

----------------------------------------------------------------------------
(* Private helpers and queries *)

Recipient(t, c, p, cl, v) ==
    [total_amount |-> t, collected |-> c, collectable_at_tge_percentage |-> p,
     cliff_duration |-> cl, vesting_duration |-> v]

\* a validation whose end-of-vesting test excludes the last timestamp
validate_end_before_limit(s, p, cl, v) ==
    IF p > 100
    THEN "collectable_at_tge_percentage must be less than or equal to 100"
    ELSE IF p = 100 /\ (cl > 0 \/ v > 0)
    THEN "cliff_duration and vesting_duration must be 0 when collectable_tge_percentage is 100"
    ELSE IF p # 100 /\ v = 0
    THEN "vesting_duration must be greater than 0 when collectable_tge_percentage is not 100"
    ELSE IF s + cl + v >= TimestampMax
    THEN "Combination of start, cliff_duration and vesting_duration exceeds limit"
    ELSE "Ok"

\* the error string of validate_airdrop_calculation_variables, or "Ok"
validate_airdrop_calculation_variables(s, p, cl, v) ==
    IF p > 100
    THEN "collectable_at_tge_percentage must be less than or equal to 100"
    ELSE IF p = 100 /\ (cl > 0 \/ v > 0)
    THEN "cliff_duration and vesting_duration must be 0 when collectable_tge_percentage is 100"
    ELSE IF p # 100 /\ v = 0
    THEN "vesting_duration must be greater than 0 when collectable_tge_percentage is not 100"
    ELSE IF s + cl + v > TimestampMax
    THEN "Combination of start, cliff_duration and vesting_duration exceeds limit"
    ELSE "Ok"

\* a window check that excludes the boundary: started only when now > start
airdrop_has_not_started_exclusive == ~(now > start)

airdrop_has_not_started == ~(now >= start)

\* an admin check that also lets the sub-admins through
authorise_or_sub_admin(allowed, received) ==
    ~(allowed # received) \/ allowed \in sub_admins_mapping

authorise(allowed, received) == ~(allowed # received)

\* a recipient check against the deployer instead of the current admin
authorise_to_update_recipient_deployer(caller) ==
    caller = "alice" \/ caller \in sub_admins_mapping

authorise_to_update_recipient(caller) ==
    caller = admin \/ caller \in sub_admins_mapping

\* show: the stored recipient, or NotFound
show(address) ==
    IF address \in DOMAIN recipients
    THEN [err |-> "Ok", recipient |-> recipients[address]]
    ELSE [err |-> "NotFound", recipient |-> Recipient(0, 0, 0, 0, 0)]

Value(n) == [err |-> "Ok", val |-> n]

Panic == [err |-> "Panic", val |-> 0]

\* the vesting part of collectable_amount (lines 140-154), given collectable_at_tge
VestingTotal(r, timestamp, collectable_at_tge) ==
    IF start + r.cliff_duration > TimestampMax
    THEN Panic                                   \* u64 addition overflows
    ELSE LET vesting_start == start + r.cliff_duration
         IN  IF timestamp >= vesting_start
             THEN IF r.total_amount < collectable_at_tge
                  THEN Panic                     \* u128 subtraction underflows
                  ELSE LET vesting_time_reached == timestamp - vesting_start
                           collectable_during_vesting ==
                               r.total_amount - collectable_at_tge
                           wide == (vesting_time_reached * collectable_during_vesting)
                                       \div r.vesting_duration
                       IN  IF wide > BalanceMax
                           THEN Panic            \* U256::as_u128 overflows
                           ELSE IF collectable_at_tge + wide > BalanceMax
                           THEN Panic            \* u128 addition overflows
                           ELSE Value(collectable_at_tge + wide)
             ELSE Value(collectable_at_tge)

\* a cap that forgets what was already collected
CapWithoutSubtract(r, total_collectable_at_time) ==
    IF total_collectable_at_time > r.total_amount
    THEN r.total_amount
    ELSE total_collectable_at_time

\* min(total_collectable_at_time, total_amount) - collected, saturating (lines 156-161)
CapAndSubtract(r, total_collectable_at_time) ==
    saturating_sub(IF total_collectable_at_time > r.total_amount
                   THEN r.total_amount
                   ELSE total_collectable_at_time,
                   r.collected)

collectable_amount(address, timestamp) ==
    IF show(address).err # "Ok"
    THEN [err |-> "NotFound", val |-> 0]
    ELSE LET r == show(address).recipient
         IN  IF timestamp >= start
             THEN LET wide_tge == (r.collectable_at_tge_percentage * r.total_amount) \div 100
                  IN  IF wide_tge > BalanceMax
                      THEN Panic                 \* U256::as_u128 overflows
                      ELSE LET total == IF r.vesting_duration > 0
                                        THEN VestingTotal(r, timestamp, wide_tge)
                                        ELSE Value(wide_tge)
                           IN  IF total.err # "Ok"
                               THEN Panic
                               ELSE Value(CapAndSubtract(r, total.val))
             ELSE Value(saturating_sub(0, r.collected))

----------------------------------------------------------------------------
(* Calls *)

\* what `last` holds: a call that wrote to storage or moved tokens, and its result
Call(op, caller, result, ret) ==
    [op |-> op, caller |-> caller, result |-> result, ret |-> ret]

\* a call that returns Err (or panics) before it wrote anything
Rejects == UNCHANGED vars

insert(address, recipient) ==
    [a \in (DOMAIN recipients) \cup {address} |->
        IF a = address THEN recipient ELSE recipients[a]]

\* a removal that drops the last element, whatever the address
remove_last(vec, address) == SubSeq(vec, 1, Len(vec) - 1)

\* Vec::remove(index) at the position of the first element equal to address
remove_first(vec, address) ==
    LET index == CHOOSE i \in 1..Len(vec) :
                     vec[i] = address /\ \A j \in 1..(i - 1) : vec[j] # address
    IN  SubSeq(vec, 1, index - 1) \o SubSeq(vec, index + 1, Len(vec))

\* a transfer whose outcome is never looked at
transfer_unchecked(amount, token_ok) == TRUE

\* PSP22 transfer of amount out of the contract: the token refuses what it does not hold
transfer_ok(amount, token_ok) == token_ok /\ amount <= balance

\* Sum of f[a] over the addresses a in S
RECURSIVE Sum(_, _)
Sum(f, S) ==
    IF S = {} THEN 0
    ELSE LET a == CHOOSE x \in S : TRUE
         IN  f[a] + Sum(f, S \ {a})

\* tokens the recipients hold because they collected them
paid_out == Sum([a \in DOMAIN recipients |-> recipients[a].collected], DOMAIN recipients)

\* tokens of the supply that neither the contract nor a recipient holds
outside == MaxSupply - balance - paid_out

\* PSP22 transfer_from of amount into the contract: the owner must hold the tokens
transfer_from_ok(amount, token_ok) == token_ok /\ amount <= outside

----------------------------------------------------------------------------
(* Init: the state after new(token, start, defaults) called by alice *)

\* a constructor that accepts every combination
new_unvalidated(start_, percentage, cliff, vesting) == "Ok"

\* what new returns: the error of the validation (lines 97-102), or "Ok"
new_result(start_, percentage, cliff, vesting) ==
    validate_airdrop_calculation_variables(start_, percentage, cliff, vesting)

\* new(token, start, percentage, cliff, vesting): the constructor's Ok branch
new(caller, start_, percentage, cliff, vesting) ==
    /\ new_result(start_, percentage, cliff, vesting) = "Ok"
    /\ admin = caller
    /\ sub_admins_mapping = {}
    /\ sub_admins_as_vec = <<>>
    /\ to_be_collected = 0
    /\ start = start_
    /\ recipients = <<>>
    /\ default_collectable_at_tge_percentage = percentage
    /\ default_cliff_duration = cliff
    /\ default_vesting_duration = vesting
    /\ last = Call("new", caller, "Ok", 0)

Init ==
    /\ \E percentage \in Percentages, vesting \in Durations :
           new("alice", 1, percentage, 0, vesting)
    /\ now = 0
    /\ balance = 0

----------------------------------------------------------------------------
(* Messages: M_result is what the call returns, M is the step it takes *)

acquire_token_result(caller, amount, token_ok) ==
    IF ~authorise(caller, admin) THEN "Unauthorised"
    ELSE IF ~airdrop_has_not_started THEN "Airdrop has started"
    ELSE IF ~transfer_from_ok(amount, token_ok) THEN "InkEnvError"
    ELSE "Ok"

acquire_token(caller, amount, token_ok) ==
    IF acquire_token_result(caller, amount, token_ok) # "Ok"
    THEN Rejects
    ELSE /\ balance' = balance + amount
         /\ last' = Call("acquire_token", caller, "Ok", 0)
         /\ UNCHANGED <<storage, now>>

collect_result(caller, token_ok) ==
    IF show(caller).err # "Ok" THEN "NotFound"
    ELSE IF collectable_amount(caller, now).err # "Ok" THEN "Panic"
    ELSE IF collectable_amount(caller, now).val = 0 THEN "Amount is zero"
    ELSE IF ~transfer_ok(collectable_amount(caller, now).val, token_ok) THEN "InkEnvError"
    ELSE "Ok"

collect(caller, token_ok) ==
    IF collect_result(caller, token_ok) # "Ok"
    THEN Rejects
    ELSE LET recipient == show(caller).recipient
             amount == collectable_amount(caller, now).val
         IN  /\ balance' = balance - amount
             /\ recipients' = insert(caller,
                    [recipient EXCEPT !.collected =
                        saturating_add(recipient.collected, amount)])
             /\ to_be_collected' = saturating_sub(to_be_collected, amount)
             /\ last' = Call("collect", caller, "Ok", amount)
             /\ UNCHANGED <<admin, sub_admins_mapping, sub_admins_as_vec, start,
                            default_collectable_at_tge_percentage,
                            default_cliff_duration, default_vesting_duration, now>>

\* a lookup that gives a stored recipient the current defaults
get_with_current_defaults(address) ==
    Recipient(IF address \in DOMAIN recipients THEN recipients[address].total_amount ELSE 0,
              IF address \in DOMAIN recipients THEN recipients[address].collected ELSE 0,
              default_collectable_at_tge_percentage,
              default_cliff_duration, default_vesting_duration)

\* self.recipients.get(address).unwrap_or(Recipient { 0, 0, defaults })
get_or_default(address) ==
    IF address \in DOMAIN recipients
    THEN recipients[address]
    ELSE Recipient(0, 0, default_collectable_at_tge_percentage,
                   default_cliff_duration, default_vesting_duration)

recipient_add_result(caller, address, amount) ==
    IF ~authorise_to_update_recipient(caller) THEN "Unauthorised"
    ELSE IF ~airdrop_has_not_started THEN "Airdrop has started"
    ELSE IF checked_add(amount, to_be_collected) = None
    THEN "Amount will cause to_be_collected to overflow"
    ELSE IF unwrap(checked_add(amount, to_be_collected)) > balance
    THEN "Insufficient balance"
    ELSE IF get_or_default(address).total_amount + amount > BalanceMax
    THEN "Panic"                                 \* total_amount += amount overflows
    ELSE "Ok"

recipient_add(caller, address, amount) ==
    IF recipient_add_result(caller, address, amount) # "Ok"
    THEN Rejects
    ELSE LET recipient == get_or_default(address)
         IN  /\ recipients' = insert(address,
                    [recipient EXCEPT !.total_amount = recipient.total_amount + amount])
             /\ to_be_collected' = unwrap(checked_add(amount, to_be_collected))
             /\ last' = Call("recipient_add", caller, "Ok", 0)
             /\ UNCHANGED <<admin, sub_admins_mapping, sub_admins_as_vec, start,
                            default_collectable_at_tge_percentage,
                            default_cliff_duration, default_vesting_duration,
                            now, balance>>

\* a subtraction that looks at the window before it looks at the caller
recipient_subtract_result_window_first(caller, address, amount) ==
    IF ~airdrop_has_not_started THEN "Airdrop has started"
    ELSE IF ~authorise_to_update_recipient(caller) THEN "Unauthorised"
    ELSE IF show(address).err # "Ok" THEN "NotFound"
    ELSE IF amount > show(address).recipient.total_amount
    THEN "Amount is greater than recipient's total amount"
    ELSE "Ok"

recipient_subtract_result(caller, address, amount) ==
    IF ~authorise_to_update_recipient(caller) THEN "Unauthorised"
    ELSE IF ~airdrop_has_not_started THEN "Airdrop has started"
    ELSE IF show(address).err # "Ok" THEN "NotFound"
    ELSE IF amount > show(address).recipient.total_amount
    THEN "Amount is greater than recipient's total amount"
    ELSE "Ok"

recipient_subtract(caller, address, amount) ==
    IF recipient_subtract_result(caller, address, amount) # "Ok"
    THEN Rejects
    ELSE LET recipient == show(address).recipient
         IN  /\ recipients' = insert(address,
                    [recipient EXCEPT !.total_amount = recipient.total_amount - amount])
             /\ to_be_collected' = saturating_sub(to_be_collected, amount)
             /\ last' = Call("recipient_subtract", caller, "Ok", 0)
             /\ UNCHANGED <<admin, sub_admins_mapping, sub_admins_as_vec, start,
                            default_collectable_at_tge_percentage,
                            default_cliff_duration, default_vesting_duration,
                            now, balance>>

\* a sweep that takes the whole balance
spare_amount_whole_balance == balance

spare_amount == saturating_sub(balance, to_be_collected)

\* a sweep that does not test the spare amount
return_spare_tokens_result_unguarded(caller, token_ok) ==
    IF ~authorise(caller, admin) THEN "Unauthorised"
    ELSE IF ~transfer_ok(spare_amount, token_ok) THEN "InkEnvError"
    ELSE "Ok"

return_spare_tokens_result(caller, token_ok) ==
    IF ~authorise(caller, admin) THEN "Unauthorised"
    ELSE IF ~(spare_amount > 0) THEN "Amount is zero"
    ELSE IF ~transfer_ok(spare_amount, token_ok) THEN "InkEnvError"
    ELSE "Ok"

return_spare_tokens(caller, token_ok) ==
    IF return_spare_tokens_result(caller, token_ok) # "Ok"
    THEN Rejects
    ELSE /\ balance' = balance - spare_amount
         /\ last' = Call("return_spare_tokens", caller, "Ok", spare_amount)
         /\ UNCHANGED <<storage, now>>

\* an addition that does not look the address up first
sub_admins_add_result_unchecked(caller, address) ==
    IF ~authorise(caller, admin) THEN "Unauthorised"
    ELSE "Ok"

sub_admins_add_result(caller, address) ==
    IF ~authorise(caller, admin) THEN "Unauthorised"
    ELSE IF address \in sub_admins_mapping THEN "Already a sub admin"
    ELSE "Ok"

sub_admins_add(caller, address) ==
    IF sub_admins_add_result(caller, address) # "Ok"
    THEN Rejects
    ELSE /\ sub_admins_as_vec' = Append(sub_admins_as_vec, address)
         /\ sub_admins_mapping' = sub_admins_mapping \cup {address}
         /\ last' = Call("sub_admins_add", caller, "Ok", 0)
         /\ UNCHANGED <<admin, to_be_collected, start, recipients,
                        default_collectable_at_tge_percentage,
                        default_cliff_duration, default_vesting_duration, now, balance>>

sub_admins_remove_result(caller, address) ==
    IF ~authorise(caller, admin) THEN "Unauthorised"
    ELSE IF address \notin sub_admins_mapping THEN "Not a sub admin"
    ELSE "Ok"

sub_admins_remove(caller, address) ==
    IF sub_admins_remove_result(caller, address) # "Ok"
    THEN Rejects
    ELSE /\ sub_admins_as_vec' = remove_first(sub_admins_as_vec, address)
         /\ sub_admins_mapping' = sub_admins_mapping \ {address}
         /\ last' = Call("sub_admins_remove", caller, "Ok", 0)
         /\ UNCHANGED <<admin, to_be_collected, start, recipients,
                        default_collectable_at_tge_percentage,
                        default_cliff_duration, default_vesting_duration, now, balance>>

\* Option::unwrap_or: the supplied value, or the stored one
or_stored(option, stored) == IF option # None THEN unwrap(option) ELSE stored

\* start checks in the other order: to_be_collected first, then the time
StartCheck_collected_first(start_o) ==
    IF start_o = None
    THEN "Ok"
    ELSE IF to_be_collected # 0
    THEN "to_be_collected must be zero when changing start time"
    ELSE IF unwrap(start_o) > now
    THEN "Ok"
    ELSE "New start time must be in the future"

\* the outcome of the `if let Some(start_unwrapped) = start` block (lines 410-425)
StartCheck(start_o) ==
    IF start_o = None
    THEN "Ok"
    ELSE IF unwrap(start_o) > now
    THEN IF to_be_collected = 0
         THEN "Ok"
         ELSE "to_be_collected must be zero when changing start time"
    ELSE "New start time must be in the future"

update_config_result(caller, admin_o, start_o, percentage_o, cliff_o, vesting_o) ==
    IF ~authorise(caller, admin) THEN "Unauthorised"
    ELSE IF StartCheck(start_o) # "Ok" THEN StartCheck(start_o)
    ELSE validate_airdrop_calculation_variables(
             or_stored(start_o, start),
             or_stored(percentage_o, default_collectable_at_tge_percentage),
             or_stored(cliff_o, default_cliff_duration),
             or_stored(vesting_o, default_vesting_duration))

\* The handler assigns each supplied field as it goes (lines 407-437): what it
\* assigned before a `return Err` stays assigned.
update_config(caller, admin_o, start_o, percentage_o, cliff_o, vesting_o) ==
    LET result == update_config_result(caller, admin_o, start_o, percentage_o,
                                       cliff_o, vesting_o)
    IN  IF result = "Unauthorised"
        THEN Rejects
        ELSE IF StartCheck(start_o) # "Ok"
        THEN \* returned at line 416 or 421, after self.admin was assigned
             /\ admin' = or_stored(admin_o, admin)
             /\ last' = IF admin_o # None
                        THEN Call("update_config", caller, result, 0)
                        ELSE last
             /\ UNCHANGED <<sub_admins_mapping, sub_admins_as_vec, to_be_collected,
                            start, recipients, default_collectable_at_tge_percentage,
                            default_cliff_duration, default_vesting_duration,
                            now, balance>>
        ELSE \* every supplied field is assigned, then the combination is validated
             /\ admin' = or_stored(admin_o, admin)
             /\ start' = or_stored(start_o, start)
             /\ default_collectable_at_tge_percentage' =
                    or_stored(percentage_o, default_collectable_at_tge_percentage)
             /\ default_cliff_duration' = or_stored(cliff_o, default_cliff_duration)
             /\ default_vesting_duration' = or_stored(vesting_o, default_vesting_duration)
             /\ last' = IF result = "Ok"
                           \/ <<admin_o, start_o, percentage_o, cliff_o, vesting_o>>
                                  # <<None, None, None, None, None>>
                        THEN Call("update_config", caller, result, 0)
                        ELSE last
             /\ UNCHANGED <<sub_admins_mapping, sub_admins_as_vec, to_be_collected,
                            recipients, now, balance>>

\* a merge that also forgets what the recipient has been allocated
merged_without_total(address, percentage_o, cliff_o, vesting_o) ==
    Recipient(0, show(address).recipient.collected,
              or_stored(percentage_o, show(address).recipient.collectable_at_tge_percentage),
              or_stored(cliff_o, show(address).recipient.cliff_duration),
              or_stored(vesting_o, show(address).recipient.vesting_duration))

\* the recipient with the supplied fields set (lines 462-470)
merged(address, percentage_o, cliff_o, vesting_o) ==
    LET stored == show(address).recipient
    IN  [stored EXCEPT
           !.collectable_at_tge_percentage = or_stored(percentage_o, @),
           !.cliff_duration = or_stored(cliff_o, @),
           !.vesting_duration = or_stored(vesting_o, @)]

\* an update that validates the stored recipient instead of the merged one
update_recipient_result_stored(caller, address, percentage_o, cliff_o, vesting_o) ==
    IF ~authorise_to_update_recipient(caller) THEN "Unauthorised"
    ELSE IF ~airdrop_has_not_started THEN "Airdrop has started"
    ELSE IF show(address).err # "Ok" THEN "NotFound"
    ELSE LET recipient == show(address).recipient
         IN  validate_airdrop_calculation_variables(start,
                 recipient.collectable_at_tge_percentage,
                 recipient.cliff_duration, recipient.vesting_duration)

update_recipient_result(caller, address, percentage_o, cliff_o, vesting_o) ==
    IF ~authorise_to_update_recipient(caller) THEN "Unauthorised"
    ELSE IF ~airdrop_has_not_started THEN "Airdrop has started"
    ELSE IF show(address).err # "Ok" THEN "NotFound"
    ELSE LET recipient == merged(address, percentage_o, cliff_o, vesting_o)
         IN  validate_airdrop_calculation_variables(start,
                 recipient.collectable_at_tge_percentage,
                 recipient.cliff_duration, recipient.vesting_duration)

update_recipient(caller, address, percentage_o, cliff_o, vesting_o) ==
    IF update_recipient_result(caller, address, percentage_o, cliff_o, vesting_o) # "Ok"
    THEN Rejects
    ELSE /\ recipients' = insert(address,
                              merged(address, percentage_o, cliff_o, vesting_o))
         /\ last' = Call("update_recipient", caller, "Ok", 0)
         /\ UNCHANGED <<admin, sub_admins_mapping, sub_admins_as_vec,
                        to_be_collected, start,
                        default_collectable_at_tge_percentage,
                        default_cliff_duration, default_vesting_duration,
                        now, balance>>

----------------------------------------------------------------------------
(* Environment *)

\* the block timestamp advances
Tick ==
    /\ now < MaxNow
    /\ now' = now + 1
    /\ last' = Call("block", "env", "Ok", 0)
    /\ UNCHANGED <<storage, balance>>

\* a holder transfers tokens to the contract's address (PSP22 transfer)
Deposit(amount) ==
    /\ amount > 0
    /\ amount <= outside
    /\ balance' = balance + amount
    /\ last' = Call("deposit", "env", "Ok", 0)
    /\ UNCHANGED <<storage, now>>

----------------------------------------------------------------------------
(* Specifications *)

\* one call or environment step, with the arguments drawn from the input sets in.*
NextWith(in) ==
    \/ \E caller \in in.callers, amount \in in.amounts, token_ok \in BOOLEAN :
           acquire_token(caller, amount, token_ok)
    \/ \E caller \in in.callers, token_ok \in BOOLEAN :
           collect(caller, token_ok)
    \/ \E caller \in in.callers, address \in in.recipients, amount \in in.amounts :
           recipient_add(caller, address, amount)
    \/ \E caller \in in.callers, address \in in.recipients, amount \in in.amounts :
           recipient_subtract(caller, address, amount)
    \/ \E caller \in in.callers, token_ok \in BOOLEAN :
           return_spare_tokens(caller, token_ok)
    \/ \E caller \in in.callers, address \in in.sub_admins :
           sub_admins_add(caller, address)
    \/ \E caller \in in.callers, address \in in.sub_admins :
           sub_admins_remove(caller, address)
    \/ \E caller \in in.callers, admin_o \in Option(in.admins),
          start_o \in Option({now, now + 1} \cap (0..TimestampMax)),
          percentage_o \in Option(in.default_percentages),
          cliff_o \in Option(in.default_cliffs),
          vesting_o \in Option(in.default_vestings) :
           update_config(caller, admin_o, start_o, percentage_o, cliff_o, vesting_o)
    \/ \E caller \in in.callers, address \in in.recipients,
          percentage_o \in Option(in.percentages),
          cliff_o \in Option(in.cliffs), vesting_o \in Option(in.vestings) :
           update_recipient(caller, address, percentage_o, cliff_o, vesting_o)
    \/ Tick
    \/ \E amount \in in.amounts : Deposit(amount)

\* the ledger: two recipients and their vesting parameters, the window, the tokens
LedgerInputs ==
    [callers |-> Accounts, recipients |-> RecipientAddresses,
     sub_admins |-> {"charlie"}, admins |-> {},
     amounts |-> Amounts,
     default_percentages |-> {}, default_cliffs |-> {}, default_vestings |-> {},
     percentages |-> Percentages, cliffs |-> {}, vestings |-> Durations]

Next == NextWith(LedgerInputs)

Spec == Init /\ [][Next]_vars

\* the administration: who the admin and the sub-admins are, with one recipient
AdminInputs ==
    [callers |-> Accounts, recipients |-> {"charlie"},
     sub_admins |-> SubAdminAddresses, admins |-> AdminAddresses,
     amounts |-> {1},
     default_percentages |-> {}, default_cliffs |-> {}, default_vestings |-> {},
     percentages |-> {100}, cliffs |-> {}, vestings |-> {}]

NextAdmin == NextWith(AdminInputs)

SpecAdmin == Init /\ [][NextAdmin]_vars

----------------------------------------------------------------------------
(* Properties *)

\* every argument tuple of the messages that take optional vesting fields
Fields == Option({50, 101}) \X {None} \X Option({1})

\* what recipient a is still owed: total_amount - collected
owed == [a \in DOMAIN recipients |->
            recipients[a].total_amount - recipients[a].collected]

\* the part of total_amount that recipient a has not collected, where positive
entitled == [a \in DOMAIN recipients |-> IF owed[a] > 0 THEN owed[a] ELSE 0]

\* C1: in every reachable state to_be_collected equals the sum over all recipients
\* of total_amount - collected.
C1_ToBeCollectedIsSum == to_be_collected = Sum(owed, DOMAIN recipients)

\* C2: in every reachable state the contract's token balance is at least
\* to_be_collected.
C2_BalanceCoversToBeCollected == balance >= to_be_collected

\* C2 witness: a recipient has collected a part and the balance left is exactly
\* what is still to be collected.
C2_Witness ==
    /\ last.op = "collect" /\ last.result = "Ok"
    /\ to_be_collected > 0
    /\ balance = to_be_collected

\* C3: for every recipient, collected <= total_amount in every reachable state.
C3_CollectedAtMostTotal ==
    \A a \in DOMAIN recipients : recipients[a].collected <= recipients[a].total_amount

\* C4: in every reachable state the balance covers what the recipients can still
\* withdraw, the sum of the not-yet-collected parts of total_amount.
C4_BalanceCoversEntitlements == balance >= Sum(entitled, DOMAIN recipients)

\* the caller passes the recipient-editing check: the admin or a sub-admin
may_edit_recipients(caller) == caller = admin \/ caller \in sub_admins_mapping

\* some call of recipient_add, recipient_subtract or update_recipient by caller
RecipientCallBy(caller) ==
    \E address \in RecipientAddresses :
        \/ \E amount \in Amounts : recipient_add(caller, address, amount)
        \/ \E amount \in Amounts : recipient_subtract(caller, address, amount)
        \/ \E f \in Fields : update_recipient(caller, address, f[1], f[2], f[3])

\* every call of recipient_add, recipient_subtract and update_recipient by caller
\* returns Unauthorised
RecipientCallsUnauthorised(caller) ==
    \A address \in RecipientAddresses :
        /\ \A amount \in Amounts :
               /\ recipient_add_result(caller, address, amount) = "Unauthorised"
               /\ recipient_subtract_result(caller, address, amount) = "Unauthorised"
        /\ \A f \in Fields :
               update_recipient_result(caller, address, f[1], f[2], f[3]) = "Unauthorised"

\* C5: recipient_add, recipient_subtract and update_recipient return Unauthorised to
\* every caller that is neither the current admin nor in the sub-admin set, and such
\* a call changes no state (a step that changes storage or the token balance is no
\* such call).
C5_OnlyAdminOrSubAdminEditsRecipients ==
    /\ [](\A caller \in Accounts :
              ~may_edit_recipients(caller) => RecipientCallsUnauthorised(caller))
    /\ [][\/ UNCHANGED <<storage, balance>>
          \/ \A caller \in Accounts :
                 ~(~may_edit_recipients(caller) /\ RecipientCallBy(caller))]_vars

\* C5 witness: alice, replaced as admin, and a sub-admin that has just been removed
\* are both refused.
C5_Witness ==
    /\ admin = "bob"
    /\ last.op = "sub_admins_remove" /\ last.result = "Ok"
    /\ "charlie" \notin sub_admins_mapping
    /\ recipient_add_result("alice", "charlie", 1) = "Unauthorised"
    /\ recipient_subtract_result("charlie", "charlie", 1) = "Unauthorised"

\* argument tuples of update_config: nothing supplied, a new admin, a later start,
\* a percentage out of range, and their combinations
ConfigArgs ==
    Option({"bob"}) \X Option({now + 1} \cap (0..TimestampMax)) \X Option({101})
        \X {None} \X {None}

\* some call of an admin-only message by caller
AdminCallBy(caller) ==
    \/ \E c \in ConfigArgs : update_config(caller, c[1], c[2], c[3], c[4], c[5])
    \/ \E address \in Accounts : sub_admins_add(caller, address)
    \/ \E address \in Accounts : sub_admins_remove(caller, address)
    \/ \E amount \in Amounts, token_ok \in BOOLEAN :
           acquire_token(caller, amount, token_ok)
    \/ \E token_ok \in BOOLEAN : return_spare_tokens(caller, token_ok)

\* every call of an admin-only message by caller returns Unauthorised
AdminCallsUnauthorised(caller) ==
    /\ \A c \in ConfigArgs :
           update_config_result(caller, c[1], c[2], c[3], c[4], c[5]) = "Unauthorised"
    /\ \A address \in Accounts :
           /\ sub_admins_add_result(caller, address) = "Unauthorised"
           /\ sub_admins_remove_result(caller, address) = "Unauthorised"
    /\ \A token_ok \in BOOLEAN :
           /\ return_spare_tokens_result(caller, token_ok) = "Unauthorised"
           /\ \A amount \in Amounts :
                  acquire_token_result(caller, amount, token_ok) = "Unauthorised"

\* C6: update_config, sub_admins_add, sub_admins_remove, acquire_token and
\* return_spare_tokens return Unauthorised to every caller other than the current
\* admin, sub-admins included, and such a call changes no state.
C6_AdminOnlyMessages ==
    /\ [](\A caller \in Accounts : caller # admin => AdminCallsUnauthorised(caller))
    /\ [][\/ UNCHANGED <<storage, balance>>
          \/ \A caller \in Accounts : ~(caller # admin /\ AdminCallBy(caller))]_vars

\* C6 witness: a sub-admin that is not the admin is refused.
C6_Witness ==
    \E caller \in sub_admins_mapping :
        /\ caller # admin
        /\ last.op = "sub_admins_add" /\ last.result = "Ok"
        /\ update_config_result(caller, Some(caller), None, None, None, None)
               = "Unauthorised"
        /\ return_spare_tokens_result(caller, TRUE) = "Unauthorised"

\* every argument tuple of update_config that changes the admin or the start
AdminConfigArgs ==
    Option(AdminAddresses) \X Option({now, now + 1} \cap (0..TimestampMax))
        \X {None} \X {None} \X {None}

\* C7: the admin changes only in a step that is a successful update_config called
\* by the current admin with the new admin as its admin argument.
C7_AdminChangesOnlyBySuccessfulUpdateConfig ==
    [][admin' # admin =>
          \E c \in AdminConfigArgs :
              /\ c[1] = Some(admin')
              /\ update_config(admin, c[1], c[2], c[3], c[4], c[5])
              /\ update_config_result(admin, c[1], c[2], c[3], c[4], c[5]) = "Ok"]_vars

\* some call by caller of a message guarded by airdrop_has_not_started
GatedCallBy(caller) ==
    \/ RecipientCallBy(caller)
    \/ \E amount \in Amounts, token_ok \in BOOLEAN :
           acquire_token(caller, amount, token_ok)

\* the results of every call by caller of a message guarded by
\* airdrop_has_not_started that caller is authorised to make
GatedResults(caller) ==
    (IF may_edit_recipients(caller)
     THEN {recipient_add_result(caller, address, amount) :
               address \in RecipientAddresses, amount \in Amounts}
          \cup {recipient_subtract_result(caller, address, amount) :
               address \in RecipientAddresses, amount \in Amounts}
          \cup {update_recipient_result(caller, address, f[1], f[2], f[3]) :
               address \in RecipientAddresses, f \in Fields}
     ELSE {})
    \cup
    (IF caller = admin
     THEN {acquire_token_result(caller, amount, token_ok) :
               amount \in Amounts, token_ok \in BOOLEAN}
     ELSE {})

\* C8: for an authorised caller recipient_add, recipient_subtract, update_recipient
\* and acquire_token return "Airdrop has started" whenever now >= start, the
\* boundary now = start included, never return it while now < start, and a call
\* refused this way changes no state.
C8_StartedExactlyFromStart ==
    /\ [](\A caller \in Accounts :
              /\ now >= start => GatedResults(caller) \subseteq {"Airdrop has started"}
              /\ now < start => "Airdrop has started" \notin GatedResults(caller))
    /\ [][\/ UNCHANGED <<storage, balance>>
          \/ \A caller \in Accounts : ~(now >= start /\ GatedCallBy(caller))]_vars

\* C8 witness: the clock has just reached start, a recipient is registered, and the
\* admin and the sub-admin are refused on the boundary.
C8_Witness ==
    /\ now = start
    /\ last.op = "block"
    /\ "bob" \in DOMAIN recipients
    /\ "charlie" \in sub_admins_mapping
    /\ recipient_subtract_result("charlie", "bob", 1) = "Airdrop has started"
    /\ acquire_token_result(admin, 1, TRUE) = "Airdrop has started"

\* the results of every call by caller of sub_admins_add, sub_admins_remove and
\* update_config
MembershipAndConfigResults(caller) ==
    {sub_admins_add_result(caller, address) : address \in Accounts}
    \cup {sub_admins_remove_result(caller, address) : address \in Accounts}
    \cup {update_config_result(caller, c[1], c[2], c[3], c[4], c[5]) : c \in ConfigArgs}

\* the results of every call by caller of a message guarded by
\* airdrop_has_not_started, whoever the caller is
AllGatedResults(caller) ==
    {recipient_add_result(caller, address, amount) :
         address \in RecipientAddresses, amount \in Amounts}
    \cup {recipient_subtract_result(caller, address, amount) :
         address \in RecipientAddresses, amount \in Amounts}
    \cup {update_recipient_result(caller, address, f[1], f[2], f[3]) :
         address \in RecipientAddresses, f \in Fields}
    \cup {acquire_token_result(caller, amount, token_ok) :
         amount \in Amounts, token_ok \in BOOLEAN}

\* C9 as stated: while now >= start no call of a message other than collect,
\* return_spare_tokens and the queries succeeds, sub_admins_add, sub_admins_remove
\* and update_config included.
C9_OnlyCollectAndSweepInLive ==
    now >= start =>
        \A caller \in Accounts :
            "Ok" \notin AllGatedResults(caller) \cup MembershipAndConfigResults(caller)

\* C9: while now >= start every call of recipient_add, recipient_subtract,
\* update_recipient and acquire_token fails, for every caller, and changes no state;
\* sub_admins_add, sub_admins_remove and update_config are never refused for the
\* start time, and in Live the admin still adds every account that is not a
\* sub-admin and removes every account that is one.
C9_GatedMessagesFailInLive ==
    /\ [](now >= start =>
              \A caller \in Accounts :
                  /\ "Ok" \notin AllGatedResults(caller)
                  /\ "Airdrop has started" \notin MembershipAndConfigResults(caller)
                  /\ \A address \in Accounts :
                         /\ address \notin sub_admins_mapping
                                => sub_admins_add_result(admin, address) = "Ok"
                         /\ address \in sub_admins_mapping
                                => sub_admins_remove_result(admin, address) = "Ok")
    /\ [][\/ UNCHANGED <<storage, balance>>
          \/ \A caller \in Accounts : ~(now >= start /\ GatedCallBy(caller))]_vars

\* C9 witness: the admin has added a sub-admin while the airdrop is live, and a
\* gated call is refused in the same state.
C9_Witness ==
    /\ now >= start
    /\ last.op = "sub_admins_add" /\ last.result = "Ok"
    /\ "charlie" \in sub_admins_mapping
    /\ recipient_add_result(admin, "bob", 1) = "Airdrop has started"

\* C10: once now >= start holds it holds in every later state.
C10_LiveIsIrreversible == [][now >= start => now' >= start']_vars

\* the fields of a recipient that only the configuring messages write
terms(r) ==
    <<r.total_amount, r.collectable_at_tge_percentage, r.cliff_duration,
      r.vesting_duration>>

\* C11: a step taken while now >= start adds no recipient and changes no
\* recipient's total_amount, collectable_at_tge_percentage, cliff_duration or
\* vesting_duration; a recipient's collected changes in such a step only when the
\* step is that recipient's own collect.
C11_RecipientsFrozenInLive ==
    [][now >= start =>
          /\ DOMAIN recipients' = DOMAIN recipients
          /\ \A a \in DOMAIN recipients :
                 /\ terms(recipients'[a]) = terms(recipients[a])
                 /\ recipients'[a].collected # recipients[a].collected
                        => \E token_ok \in BOOLEAN : collect(a, token_ok)]_vars

\* C11 witness: a recipient has just collected in Live while another recipient is
\* registered.
C11_Witness ==
    /\ now >= start
    /\ last.op = "collect" /\ last.result = "Ok"
    /\ DOMAIN recipients = RecipientAddresses
    /\ recipients[last.caller].collected > 0

\* C12: an update_config call that supplies a start while to_be_collected > 0 fails
\* for every caller and leaves start as it was; one by the admin that supplies a
\* start <= now returns "New start time must be in the future", also when
\* to_be_collected > 0.
C12_StartChangeRefused ==
    /\ [](\A c \in AdminConfigArgs :
              c[2] # None =>
                  /\ to_be_collected > 0 =>
                         \A caller \in Accounts :
                             update_config_result(caller, c[1], c[2], c[3], c[4], c[5])
                                 # "Ok"
                  /\ unwrap(c[2]) <= now =>
                         update_config_result(admin, c[1], c[2], c[3], c[4], c[5])
                             = "New start time must be in the future")
    /\ [][\/ start' = start
          \/ \A caller \in Accounts, c \in AdminConfigArgs :
                 ~(/\ c[2] # None
                   /\ to_be_collected > 0
                   /\ update_config(caller, c[1], c[2], c[3], c[4], c[5]))]_vars

\* C12 witness: an amount has just been allocated, so that a start in the future is
\* refused for to_be_collected and a start equal to now for not being in the future.
C12_Witness ==
    /\ last.op = "recipient_add" /\ last.result = "Ok"
    /\ to_be_collected > 0
    /\ update_config_result(admin, None, Some(now + 1), None, None, None)
           = "to_be_collected must be zero when changing start time"
    /\ update_config_result(admin, None, Some(now), None, None, None)
           = "New start time must be in the future"

\* the stored defaults pass the percentage and duration tests of the validation
DefaultsValid ==
    /\ default_collectable_at_tge_percentage <= 100
    /\ default_collectable_at_tge_percentage = 100
           => default_cliff_duration = 0 /\ default_vesting_duration = 0
    /\ default_collectable_at_tge_percentage # 100 => default_vesting_duration > 0

\* the result of update_config called by the admin with only a new start
StartOnlyResult(start_) == update_config_result(admin, None, Some(start_), None, None, None)

\* C13 as stated: whenever to_be_collected = 0, an update_config by the admin that
\* supplies only a start greater than now succeeds, whatever the stored default
\* cliff and vesting durations are.
C13_StartOnlyUpdateSucceeds ==
    to_be_collected = 0 =>
        \A start_ \in {now + 1} \cap (0..TimestampMax) : StartOnlyResult(start_) = "Ok"

\* C13: whenever to_be_collected = 0, an update_config by the admin that supplies
\* only a start greater than now succeeds and sets start to it, provided the new
\* start plus the stored default cliff and vesting durations does not exceed the
\* largest timestamp (and the stored defaults are a valid combination); when the
\* sum exceeds it the call returns the exceeds-limit error.
C13_StartOnlyUpdateWithinLimit ==
    /\ [](\A start_ \in 0..TimestampMax :
              (to_be_collected = 0 /\ start_ > now /\ DefaultsValid) =>
                  StartOnlyResult(start_) =
                      IF start_ + default_cliff_duration + default_vesting_duration
                             <= TimestampMax
                      THEN "Ok"
                      ELSE "Combination of start, cliff_duration and vesting_duration exceeds limit")
    /\ [][\/ UNCHANGED vars
          \/ \A start_ \in {now + 1} \cap (0..TimestampMax) :
                 (/\ to_be_collected = 0 /\ start_ > now /\ DefaultsValid
                  /\ start_ + default_cliff_duration + default_vesting_duration
                         <= TimestampMax
                  /\ update_config(admin, None, Some(start_), None, None, None))
                     => start' = start_]_vars

\* C13 witness: the admin has moved start from 1 to 2 with a stored default vesting
\* duration of 1.
C13_Witness ==
    /\ last.op = "update_config" /\ last.result = "Ok" /\ last.caller = admin
    /\ start = 2
    /\ default_vesting_duration = 1
    /\ to_be_collected = 0

\* some call by caller, of any message, that returns an error
FailedCallBy(caller) ==
    \/ \E c \in AdminConfigArgs :
           /\ update_config_result(caller, c[1], c[2], c[3], c[4], c[5]) # "Ok"
           /\ update_config(caller, c[1], c[2], c[3], c[4], c[5])
    \/ \E address \in Accounts :
           \/ /\ sub_admins_add_result(caller, address) # "Ok"
              /\ sub_admins_add(caller, address)
           \/ /\ sub_admins_remove_result(caller, address) # "Ok"
              /\ sub_admins_remove(caller, address)
    \/ \E address \in RecipientAddresses, amount \in Amounts :
           \/ /\ recipient_add_result(caller, address, amount) # "Ok"
              /\ recipient_add(caller, address, amount)
           \/ /\ recipient_subtract_result(caller, address, amount) # "Ok"
              /\ recipient_subtract(caller, address, amount)
    \/ \E address \in RecipientAddresses, f \in Fields :
           /\ update_recipient_result(caller, address, f[1], f[2], f[3]) # "Ok"
           /\ update_recipient(caller, address, f[1], f[2], f[3])
    \/ \E token_ok \in BOOLEAN :
           \/ /\ collect_result(caller, token_ok) # "Ok"
              /\ collect(caller, token_ok)
           \/ /\ return_spare_tokens_result(caller, token_ok) # "Ok"
              /\ return_spare_tokens(caller, token_ok)
           \/ \E amount \in Amounts :
                  /\ acquire_token_result(caller, amount, token_ok) # "Ok"
                  /\ acquire_token(caller, amount, token_ok)

\* C14: a call that returns an error leaves the persisted state (admin, sub-admins,
\* start, defaults, to_be_collected, recipients) as it was; in particular an
\* update_config by the admin whose start is rejected changes neither admin nor
\* start nor a default.
C14_ErrorsLeaveStorageUnchanged ==
    [][\/ UNCHANGED storage
       \/ \A caller \in Accounts : ~FailedCallBy(caller)]_vars

\* caller has a recipient record, collectable_amount returns, and there is nothing
\* to collect at the current block
NothingCollectable(caller) ==
    /\ caller \in DOMAIN recipients
    /\ collectable_amount(caller, now).err = "Ok"
    /\ \/ now < start
       \/ recipients[caller].collected >= recipients[caller].total_amount
       \/ collectable_amount(caller, now).val = 0

\* C15: collect by a caller whose collectable amount at the current block is zero
\* (every recipient while now < start, and a recipient that has collected its whole
\* total_amount) returns "Amount is zero", moves no token and changes no storage;
\* a caller with no recipient record gets NotFound.
C15_CollectOfNothingFails ==
    /\ [](\A caller \in Accounts, token_ok \in BOOLEAN :
              /\ caller \notin DOMAIN recipients
                     => collect_result(caller, token_ok) = "NotFound"
              /\ NothingCollectable(caller)
                     => collect_result(caller, token_ok) = "Amount is zero")
    /\ [][\/ UNCHANGED <<storage, balance>>
          \/ \A caller \in DOMAIN recipients, token_ok \in BOOLEAN :
                 ~(collect(caller, token_ok) /\ NothingCollectable(caller))]_vars

\* C15 witness: a recipient has just collected its whole total_amount, so its next
\* collect has nothing left, and an account without a record is not found.
C15_Witness ==
    /\ last.op = "collect" /\ last.result = "Ok"
    /\ recipients[last.caller].total_amount > 0
    /\ recipients[last.caller].collected = recipients[last.caller].total_amount
    /\ collect_result(last.caller, TRUE) = "Amount is zero"
    /\ collect_result("alice", TRUE) = "NotFound"

\* C16: a successful collect by a caller returns a = collectable_amount(caller, now),
\* a > 0, moves exactly a tokens out of the contract, raises the caller's collected
\* by a, lowers to_be_collected by a, and changes nothing else: no other recipient,
\* none of the caller's other fields, not the admin, the sub-admins, start or the
\* defaults.
C16_CollectMovesExactlyCollectable ==
    [][\A caller \in Accounts, token_ok \in BOOLEAN :
          (collect_result(caller, token_ok) = "Ok" /\ collect(caller, token_ok)) =>
              LET a == collectable_amount(caller, now).val
              IN  /\ a > 0
                  /\ last'.ret = a
                  /\ balance' = balance - a
                  /\ recipients'[caller].collected = recipients[caller].collected + a
                  /\ to_be_collected' = to_be_collected - a
                  /\ terms(recipients'[caller]) = terms(recipients[caller])
                  /\ DOMAIN recipients' = DOMAIN recipients
                  /\ \A other \in DOMAIN recipients \ {caller} :
                         recipients'[other] = recipients[other]
                  /\ UNCHANGED <<admin, sub_admins_mapping, sub_admins_as_vec, start,
                                 default_collectable_at_tge_percentage,
                                 default_cliff_duration, default_vesting_duration>>]_vars

\* caller has something to collect and the token transfer that collect orders fails:
\* the token contract refuses it, or the contract holds less than the amount
TransferFails(caller, token_ok) ==
    /\ caller \in DOMAIN recipients
    /\ collectable_amount(caller, now).err = "Ok"
    /\ collectable_amount(caller, now).val > 0
    /\ ~token_ok \/ collectable_amount(caller, now).val > balance

\* C17: when the token transfer ordered by collect fails, collect returns an error
\* and neither the caller's collected nor to_be_collected changes; a recipient's
\* collected grows only in a step that moves that many tokens out of the contract.
C17_FailedTransferChangesNothing ==
    /\ [](\A caller \in Accounts, token_ok \in BOOLEAN :
              TransferFails(caller, token_ok)
                  => collect_result(caller, token_ok) = "InkEnvError")
    /\ [][\/ UNCHANGED <<recipients, to_be_collected>>
          \/ /\ \A caller \in DOMAIN recipients, token_ok \in BOOLEAN :
                    ~(collect(caller, token_ok) /\ TransferFails(caller, token_ok))
             /\ \A a \in DOMAIN recipients \cap DOMAIN recipients' :
                    recipients'[a].collected > recipients[a].collected
                        => balance' = balance - (recipients'[a].collected
                                                    - recipients[a].collected)]_vars

\* C17 witness: a recipient is owed more than the contract holds, so the transfer
\* fails even when the token contract is willing.
C17_Witness ==
    \E caller \in DOMAIN recipients :
        /\ collectable_amount(caller, now).val > balance
        /\ collect_result(caller, TRUE) = "InkEnvError"
        /\ collect_result(caller, FALSE) = "InkEnvError"

-----------------------------------------------------------------------------
(* collectable_amount as a function of the stored recipient, start and the   *)
(* timestamp argument                                                        *)

\* stored percentages of the vesting computation
CalcPercentages == {0, 20, 50, 100}

\* what a recipient with these terms has unlocked at timestamp (nothing when the
\* computation does not return)
unlocked(start_, total, percentage, cliff, vesting, timestamp) ==
    LET r == Recipient(total, 0, percentage, cliff, vesting)
        wide_tge == (percentage * total) \div 100
        at_time == IF vesting > 0
                   THEN IF start_ + cliff > TimestampMax \/ timestamp < start_ + cliff
                        THEN wide_tge
                        ELSE wide_tge + ((timestamp - start_ - cliff) * (total - wide_tge))
                                            \div vesting
                   ELSE wide_tge
    IN  IF timestamp < start_ \/ at_time > BalanceMax
        THEN 0
        ELSE IF at_time > total THEN total ELSE at_time

\* A contract with one recipient, bob, registered with terms that passed
\* validate_airdrop_calculation_variables, who has collected at most what was
\* unlocked by the current block.
InitCalc ==
    \E start_ \in 0..TimestampMax, total \in 0..BalanceMax,
       percentage \in CalcPercentages, cliff \in Durations, vesting \in 0..2,
       block \in 0..MaxNow :
        /\ validate_airdrop_calculation_variables(start_, percentage, cliff, vesting) = "Ok"
        /\ \E collected \in 0..unlocked(start_, total, percentage, cliff, vesting, block) :
               /\ recipients = [a \in {"bob"} |->
                                    Recipient(total, collected, percentage, cliff, vesting)]
               /\ to_be_collected = total - collected
               /\ balance = total - collected
        /\ admin = "alice"
        /\ sub_admins_mapping = {}
        /\ sub_admins_as_vec = <<>>
        /\ start = start_
        /\ default_collectable_at_tge_percentage = percentage
        /\ default_cliff_duration = cliff
        /\ default_vesting_duration = vesting
        /\ now = block
        /\ last = Call("new", "alice", "Ok", 0)

\* the collectable_amount message: a query, it writes nothing
collectable_amount_call(address, timestamp) ==
    /\ last' = Call("collectable_amount", address,
                    collectable_amount(address, timestamp).err,
                    collectable_amount(address, timestamp).val)
    /\ UNCHANGED <<storage, now, balance>>

NextCalc ==
    \E address \in RecipientAddresses, timestamp \in 0..TimestampMax :
        collectable_amount_call(address, timestamp)

SpecCalc == InitCalc /\ [][NextCalc]_vars

\* x clamped at 0
clamp(x) == IF x > 0 THEN x ELSE 0

\* the smaller of two numbers
min(x, y) == IF x < y THEN x ELSE y

\* C18: for every stored recipient, what collectable_amount returns at t1 is at most
\* what a call returns at t2, whenever t1 <= t2.
C18_CollectableIsMonotonic ==
    [][\A address \in DOMAIN recipients, t2 \in 0..TimestampMax :
          collectable_amount_call(address, t2) =>
              \A t1 \in 0..t2 :
                  /\ collectable_amount(address, t1).err = "Ok"
                  /\ last'.result = "Ok"
                  /\ collectable_amount(address, t1).val <= last'.ret]_vars

\* the value C19 gives for recipient r at timestamp t
reference(r, t) ==
    IF t < start
    THEN clamp(0 - r.collected)
    ELSE LET tge == (r.collectable_at_tge_percentage * r.total_amount) \div 100
             vested == IF r.vesting_duration = 0 \/ t < start + r.cliff_duration
                       THEN 0
                       ELSE ((t - start - r.cliff_duration) * (r.total_amount - tge))
                                \div r.vesting_duration
         IN  clamp(min(r.total_amount, tge + vested) - r.collected)

\* C19: for every stored recipient and every timestamp collectable_amount returns
\* the reference value: nothing before start, and from start on the part unlocked at
\* TGE plus the part vested since the cliff, capped at total_amount, less what was
\* collected.
C19_CollectableIsReference ==
    [][\A address \in DOMAIN recipients, t \in 0..TimestampMax :
          collectable_amount_call(address, t) =>
              /\ last'.result = "Ok"
              /\ last'.ret = reference(recipients[address], t)]_vars

\* C20: for every stored recipient and every timestamp collectable_amount returns at
\* most total_amount - collected (clamped at 0), and exactly that from the end of
\* vesting, start + cliff_duration + vesting_duration, on.
C20_CollectableIsCappedByRemainder ==
    [][\A address \in DOMAIN recipients, t \in 0..TimestampMax :
          collectable_amount_call(address, t) =>
              LET r == recipients[address]
                  remainder == clamp(r.total_amount - r.collected)
              IN  /\ last'.result = "Ok"
                  /\ last'.ret <= remainder
                  /\ t >= start + r.cliff_duration + r.vesting_duration
                         => last'.ret = remainder]_vars

-----------------------------------------------------------------------------
(* The vesting terms: the defaults, one recipient and every field of            *)
(* update_config and update_recipient                                           *)

\* the terms: the admin as the one caller and the one recipient, and every optional
\* field of update_config and update_recipient, so that the defaults change while
\* the recipient exists
TermsInputs ==
    [callers |-> {"alice"}, recipients |-> {"alice"},
     sub_admins |-> {"charlie"}, admins |-> {},
     amounts |-> {1},
     default_percentages |-> {100, 101}, default_cliffs |-> {1},
     default_vestings |-> {0},
     percentages |-> {100}, cliffs |-> {1}, vestings |-> {0}]

NextTerms == NextWith(TermsInputs)

SpecTerms == Init /\ [][NextTerms]_vars

\* the combinations C21 and C22 call valid
ValidCombination(s, p, cl, v) ==
    /\ p <= 100
    /\ p = 100 => cl = 0 /\ v = 0
    /\ p < 100 => v > 0
    /\ s + cl + v <= TimestampMax

\* u8 percentages: 0, below 100, 100, above 100, the largest
AllPercentages == {0, 50, 99, 100, 101, 255}

\* argument tuples of update_recipient and of the default fields of update_config:
\* a percentage of 100 or above 100, a cliff, no vesting, and their combinations
TermFields == Option({100, 101}) \X Option({1}) \X Option({0})

\* C21: validate_airdrop_calculation_variables(start, p, cliff, vesting) succeeds
\* exactly when p <= 100, cliff and vesting are 0 if p = 100, vesting > 0 if
\* p < 100, and start + cliff + vesting, not wrapped, is at most the largest
\* timestamp; the constructor returns an error for every other combination, and so
\* do update_recipient (for the merged recipient and the stored start) and
\* update_config (for the merged defaults and start) called by the admin.
C21_ValidateAcceptsExactlyValidCombinations ==
    /\ \A s \in 0..TimestampMax, p \in AllPercentages,
          cl \in 0..TimestampMax, v \in 0..TimestampMax :
           /\ validate_airdrop_calculation_variables(s, p, cl, v) = "Ok"
                  <=> ValidCombination(s, p, cl, v)
           /\ new_result(s, p, cl, v) = "Ok" <=> ValidCombination(s, p, cl, v)
    /\ [](\A f \in TermFields :
              /\ \A address \in DOMAIN recipients :
                     LET recipient == merged(address, f[1], f[2], f[3])
                     IN  ~ValidCombination(start,
                                           recipient.collectable_at_tge_percentage,
                                           recipient.cliff_duration,
                                           recipient.vesting_duration)
                             => update_recipient_result(admin, address, f[1], f[2], f[3])
                                    # "Ok"
              /\ \A start_o \in Option({now + 1} \cap (0..TimestampMax)) :
                     ~ValidCombination(
                          or_stored(start_o, start),
                          or_stored(f[1], default_collectable_at_tge_percentage),
                          or_stored(f[2], default_cliff_duration),
                          or_stored(f[3], default_vesting_duration))
                         => update_config_result(admin, None, start_o, f[1], f[2], f[3])
                                # "Ok")

\* C21 witness: update_config has just been refused by the validation, the
\* recipient's terms cannot be set to 100% with its vesting duration, and the
\* constructor refuses (0, 0, 0).
C21_Witness ==
    /\ last.op = "update_config"
    /\ last.result = "collectable_at_tge_percentage must be less than or equal to 100"
    /\ admin \in DOMAIN recipients
    /\ recipients[admin].vesting_duration > 0
    /\ now < start
    /\ update_recipient_result(admin, admin, Some(100), None, None)
           = "cliff_duration and vesting_duration must be 0 when collectable_tge_percentage is 100"
    /\ new_result(start, 0, 0, 0) # "Ok"

\* C22: in every reachable state every stored recipient has
\* collectable_at_tge_percentage <= 100, cliff_duration = 0 and vesting_duration = 0
\* when the percentage is 100, and vesting_duration > 0 when it is below 100.
C22_StoredRecipientsAreValid ==
    \A a \in DOMAIN recipients :
        LET r == recipients[a]
        IN  /\ r.collectable_at_tge_percentage <= 100
            /\ r.collectable_at_tge_percentage = 100
                   => r.cliff_duration = 0 /\ r.vesting_duration = 0
            /\ r.collectable_at_tge_percentage < 100 => r.vesting_duration > 0

\* the addresses in the sub-admin enumeration vector
vec_addresses == {sub_admins_as_vec[i] : i \in 1..Len(sub_admins_as_vec)}

\* C23: in every reachable state the sub-admin vector and the sub-admin mapping hold
\* exactly the same addresses, and no address is in the vector twice.
C23_SubAdminVecMatchesMapping ==
    /\ vec_addresses = sub_admins_mapping
    /\ \A i, j \in 1..Len(sub_admins_as_vec) :
           sub_admins_as_vec[i] = sub_admins_as_vec[j] => i = j

\* C23 witness: two sub-admins were added and one of them has just been removed,
\* after which another removal of it is refused.
C23_Witness ==
    /\ last.op = "sub_admins_remove" /\ last.result = "Ok"
    /\ Len(sub_admins_as_vec) = 1
    /\ sub_admins_mapping = {sub_admins_as_vec[1]}
    /\ \E address \in SubAdminAddresses \ sub_admins_mapping :
           sub_admins_remove_result(admin, address) = "Not a sub admin"

C25_RecipientAddAddsExactlyAmount ==
    [][\/ UNCHANGED <<recipients, to_be_collected>>
       \/ \A caller \in Accounts, address \in Accounts, amount \in Amounts :
              (/\ recipient_add_result(caller, address, amount) = "Ok"
               /\ recipient_add(caller, address, amount)) =>
                  /\ to_be_collected' = to_be_collected + amount
                  /\ address \in DOMAIN recipients'
                  /\ IF address \in DOMAIN recipients
                     THEN /\ recipients'[address].total_amount
                                 = recipients[address].total_amount + amount
                          /\ recipients'[address].collected = recipients[address].collected
                          /\ recipients'[address].collectable_at_tge_percentage
                                 = recipients[address].collectable_at_tge_percentage
                          /\ recipients'[address].cliff_duration
                                 = recipients[address].cliff_duration
                          /\ recipients'[address].vesting_duration
                                 = recipients[address].vesting_duration
                     ELSE /\ recipients'[address].total_amount = amount
                          /\ recipients'[address].collected = 0
                          /\ recipients'[address].collectable_at_tge_percentage
                                 = default_collectable_at_tge_percentage
                          /\ recipients'[address].cliff_duration = default_cliff_duration
                          /\ recipients'[address].vesting_duration
                                 = default_vesting_duration]_vars

\* C25 witness: a second amount has just been added to a recipient created with a
\* default percentage of 50, after the default percentage was changed to 100.
C25_Witness ==
    /\ last.op = "recipient_add" /\ last.result = "Ok"
    /\ \E a \in DOMAIN recipients :
           /\ recipients[a].total_amount = 2
           /\ recipients[a].collectable_at_tge_percentage = 50
           /\ recipients[a].vesting_duration = 1
    /\ default_collectable_at_tge_percentage = 100
    /\ default_vesting_duration = 0

-----------------------------------------------------------------------------
(* Tokens that come back: a recipient that has collected, or any other holder, *)
(* sends tokens to the contract                                                *)

\* a holder transfers tokens to the contract's address (PSP22 transfer); what the
\* holders own is limited only by the token's u128 supply
Transfer(amount) ==
    /\ amount > 0
    /\ balance + amount <= BalanceMax
    /\ balance' = balance + amount
    /\ last' = Call("transfer", "env", "Ok", 0)
    /\ UNCHANGED <<storage, now>>

\* one recipient, bob, paid in full at start, and amounts of more than half of
\* BalanceMax
RecycleInputs ==
    [callers |-> {"alice", "bob"}, recipients |-> {"bob"},
     sub_admins |-> {"charlie"}, admins |-> {},
     amounts |-> {1, 4},
     default_percentages |-> {}, default_cliffs |-> {}, default_vestings |-> {},
     percentages |-> {100}, cliffs |-> {}, vestings |-> {0}]

NextRecycle ==
    \/ NextWith(RecycleInputs)
    \/ \E amount \in RecycleInputs.amounts : Transfer(amount)

SpecRecycle == Init /\ [][NextRecycle]_vars

\* amounts passed to recipient_add: nothing, one token, more than half of
\* BalanceMax, BalanceMax
AddAmounts == {0, 1, 4, BalanceMax}

\* C26: for a caller that is the admin or a sub-admin, while now < start,
\* recipient_add returns "Amount will cause to_be_collected to overflow" when
\* amount + to_be_collected exceeds BalanceMax, otherwise "Insufficient balance"
\* exactly when the contract's balance is below to_be_collected + amount, and
\* otherwise succeeds; a recipient_add that fails adds no recipient and changes no
\* amount.
C26_RecipientAddOutcome ==
    /\ [](\A caller \in Accounts, address \in Accounts, amount \in AddAmounts :
              (may_edit_recipients(caller) /\ now < start) =>
                  recipient_add_result(caller, address, amount) =
                      IF amount + to_be_collected > BalanceMax
                      THEN "Amount will cause to_be_collected to overflow"
                      ELSE IF balance < to_be_collected + amount
                      THEN "Insufficient balance"
                      ELSE "Ok")
    /\ [][\/ UNCHANGED <<recipients, to_be_collected>>
          \/ \A caller \in Accounts, address \in Accounts, amount \in AddAmounts :
                 ~(/\ recipient_add_result(caller, address, amount) # "Ok"
                   /\ recipient_add(caller, address, amount))]_vars

\* C27: for a caller that is the admin or a sub-admin, while now < start,
\* recipient_subtract(address, amount) returns NotFound when the address has no
\* record, "Amount is greater than recipient's total amount" when amount exceeds its
\* total_amount, and otherwise lowers that total_amount and to_be_collected by
\* amount and changes neither the recipient's collected, percentage, cliff and
\* vesting nor any other recipient.
C27_RecipientSubtractOutcome ==
    /\ [](\A caller \in Accounts, address \in Accounts, amount \in Amounts :
              (may_edit_recipients(caller) /\ now < start) =>
                  recipient_subtract_result(caller, address, amount) =
                      IF address \notin DOMAIN recipients
                      THEN "NotFound"
                      ELSE IF amount > recipients[address].total_amount
                      THEN "Amount is greater than recipient's total amount"
                      ELSE "Ok")
    /\ [][\/ UNCHANGED <<recipients, to_be_collected>>
          \/ \A caller \in Accounts, address \in DOMAIN recipients, amount \in Amounts :
                 (/\ recipient_subtract(caller, address, amount)
                  /\ recipient_subtract_result(caller, address, amount) = "Ok") =>
                     /\ recipients'[address].total_amount
                            = recipients[address].total_amount - amount
                     /\ to_be_collected' = to_be_collected - amount
                     /\ recipients'[address].collected = recipients[address].collected
                     /\ recipients'[address].collectable_at_tge_percentage
                            = recipients[address].collectable_at_tge_percentage
                     /\ recipients'[address].cliff_duration
                            = recipients[address].cliff_duration
                     /\ recipients'[address].vesting_duration
                            = recipients[address].vesting_duration
                     /\ DOMAIN recipients' = DOMAIN recipients
                     /\ \A other \in DOMAIN recipients \ {address} :
                            recipients'[other] = recipients[other]]_vars

\* to_be_collected and every recipient's total_amount and collected
amounts ==
    <<to_be_collected,
      [a \in DOMAIN recipients |-> <<recipients[a].total_amount, recipients[a].collected>>]>>

\* argument tuples of update_config: a later start and the default fields
TermConfigArgs == Option({now + 1} \cap (0..TimestampMax)) \X TermFields

\* some call by caller of a message other than recipient_add, recipient_subtract
\* and collect, or of the collectable_amount query
OtherCallBy(caller) ==
    \/ \E c \in TermConfigArgs :
           update_config(caller, None, c[1], c[2][1], c[2][2], c[2][3])
    \/ \E address \in DOMAIN recipients :
           \/ \E f \in TermFields : update_recipient(caller, address, f[1], f[2], f[3])
           \/ collectable_amount_call(address, now)
    \/ \E address \in SubAdminAddresses :
           \/ sub_admins_add(caller, address)
           \/ sub_admins_remove(caller, address)
    \/ \E token_ok \in BOOLEAN :
           \/ return_spare_tokens(caller, token_ok)
           \/ \E amount \in Amounts : acquire_token(caller, amount, token_ok)

\* some successful recipient_add, recipient_subtract or collect
LedgerCallOk ==
    \E caller \in TermsInputs.callers :
        \/ \E address \in TermsInputs.recipients, amount \in Amounts :
               \/ /\ recipient_add_result(caller, address, amount) = "Ok"
                  /\ recipient_add(caller, address, amount)
               \/ /\ recipient_subtract_result(caller, address, amount) = "Ok"
                  /\ recipient_subtract(caller, address, amount)
        \/ \E token_ok \in BOOLEAN :
               /\ collect_result(caller, token_ok) = "Ok"
               /\ collect(caller, token_ok)

\* C28: a step that changes to_be_collected, or a recipient's total_amount or
\* collected, is a successful recipient_add, recipient_subtract or collect, and is
\* no call of update_config, update_recipient, sub_admins_add, sub_admins_remove,
\* acquire_token, return_spare_tokens or the collectable_amount query.
C28_OnlyLedgerCallsChangeAmounts ==
    [][\/ UNCHANGED <<to_be_collected, recipients>>
       \/ amounts' = amounts
       \/ /\ LedgerCallOk
          /\ \A caller \in TermsInputs.callers : ~OtherCallBy(caller)]_vars

\* C28 witness: the recipient's terms have just been changed by update_recipient
\* while an amount is allocated to it.
C28_Witness ==
    /\ last.op = "update_recipient" /\ last.result = "Ok"
    /\ to_be_collected > 0
    /\ \E a \in DOMAIN recipients :
           /\ recipients[a].total_amount = to_be_collected
           /\ recipients[a].cliff_duration = 1

\* C29: return_spare_tokens called by the admin returns "Amount is zero" when the
\* balance less to_be_collected, clamped at 0, is 0; otherwise, the token carrying
\* the transfer out, it succeeds, returns that spare amount and moves exactly it out
\* of the contract, writes no storage, and leaves the balance equal to
\* to_be_collected, so that the same call made next returns "Amount is zero".
C29_SweepLeavesToBeCollected ==
    /\ [](\A token_ok \in BOOLEAN :
              return_spare_tokens_result(admin, token_ok) =
                  IF clamp(balance - to_be_collected) = 0 THEN "Amount is zero"
                  ELSE IF token_ok THEN "Ok"
                  ELSE "InkEnvError")
    /\ [][\/ UNCHANGED balance
          \/ \A token_ok \in BOOLEAN :
                 (/\ return_spare_tokens(admin, token_ok)
                  /\ return_spare_tokens_result(admin, token_ok) = "Ok") =>
                     /\ balance' = balance - clamp(balance - to_be_collected)
                     /\ last'.ret = clamp(balance - to_be_collected)
                     /\ balance' = to_be_collected'
                     /\ UNCHANGED storage
                     /\ \A again \in BOOLEAN :
                            return_spare_tokens_result(admin, again)' = "Amount is zero"]_vars

\* C29 witness: the admin has just swept a spare amount while an amount is still to
\* be collected, and the balance left is exactly that amount.
C29_Witness ==
    /\ last.op = "return_spare_tokens" /\ last.result = "Ok" /\ last.caller = admin
    /\ last.ret > 0
    /\ to_be_collected > 0
    /\ balance = to_be_collected
    /\ return_spare_tokens_result(admin, TRUE) = "Amount is zero"

\* the supplied value of a field, or the one the recipient has
supplied_or_kept(option, kept) == IF option = None THEN kept ELSE option[1]

\* C30: called by the admin while now < start, update_recipient returns NotFound
\* for an address without a record and otherwise succeeds exactly when the stored
\* percentage, cliff and vesting, each replaced by the supplied value if there is
\* one, are a valid combination with the current start; a step of update_recipient
\* that changes the stored recipients is a successful one, sets each supplied field,
\* keeps each field not supplied, and changes neither total_amount, collected,
\* to_be_collected nor another recipient.
C30_UpdateRecipientSetsSuppliedFields ==
    /\ [](now < start =>
              \A f \in TermFields :
                  /\ \A address \in Accounts \ DOMAIN recipients :
                         update_recipient_result(admin, address, f[1], f[2], f[3])
                             = "NotFound"
                  /\ \A address \in DOMAIN recipients :
                         update_recipient_result(admin, address, f[1], f[2], f[3]) = "Ok"
                             <=> ValidCombination(
                                     start,
                                     supplied_or_kept(f[1],
                                         recipients[address].collectable_at_tge_percentage),
                                     supplied_or_kept(f[2], recipients[address].cliff_duration),
                                     supplied_or_kept(f[3],
                                         recipients[address].vesting_duration)))
    /\ [][\/ UNCHANGED recipients
          \/ \A caller \in TermsInputs.callers, address \in Accounts, f \in TermFields :
                 update_recipient(caller, address, f[1], f[2], f[3]) =>
                     /\ update_recipient_result(caller, address, f[1], f[2], f[3]) = "Ok"
                     /\ address \in DOMAIN recipients
                     /\ DOMAIN recipients' = DOMAIN recipients
                     /\ recipients'[address] =
                            Recipient(recipients[address].total_amount,
                                      recipients[address].collected,
                                      supplied_or_kept(f[1],
                                          recipients[address].collectable_at_tge_percentage),
                                      supplied_or_kept(f[2],
                                          recipients[address].cliff_duration),
                                      supplied_or_kept(f[3],
                                          recipients[address].vesting_duration))
                     /\ to_be_collected' = to_be_collected
                     /\ \A other \in DOMAIN recipients \ {address} :
                            recipients'[other] = recipients[other]]_vars

\* C30 witness: update_recipient has just set the cliff of a recipient that keeps
\* its percentage of 50, its vesting duration and its amount, and a percentage of
\* 100 alone is refused for it.
C30_Witness ==
    /\ last.op = "update_recipient" /\ last.result = "Ok"
    /\ \E a \in DOMAIN recipients :
           /\ recipients[a].total_amount > 0
           /\ recipients[a].collectable_at_tge_percentage = 50
           /\ recipients[a].cliff_duration = 1
           /\ recipients[a].vesting_duration = 1
           /\ update_recipient_result(admin, a, Some(100), None, None)
                  = "cliff_duration and vesting_duration must be 0 when collectable_tge_percentage is 100"
           /\ update_recipient_result(admin, a, Some(100), Some(0), Some(0))
                  = "Ok"

\* C31: the saturating subtractions on to_be_collected never saturate: a
\* recipient_subtract that reaches its update finds to_be_collected >= amount, a
\* collect that reaches its update finds to_be_collected >= the amount collected,
\* and either lowers to_be_collected by exactly that amount.
C31_SubtractionsNeverClamp ==
    [][\/ UNCHANGED <<recipients, to_be_collected>>
       \/ /\ \A caller \in Accounts, address \in DOMAIN recipients, amount \in Amounts :
                 (/\ recipient_subtract(caller, address, amount)
                  /\ recipient_subtract_result(caller, address, amount) = "Ok") =>
                     /\ to_be_collected >= amount
                     /\ to_be_collected' = to_be_collected - amount
          /\ \A caller \in DOMAIN recipients, token_ok \in BOOLEAN :
                 (/\ collect(caller, token_ok)
                  /\ collect_result(caller, token_ok) = "Ok") =>
                     /\ to_be_collected >= collectable_amount(caller, now).val
                     /\ to_be_collected' =
                            to_be_collected - collectable_amount(caller, now).val]_vars

-----------------------------------------------------------------------------
(* A start moved further ahead: update_config with a start two blocks away    *)

\* the messages of the terms profile, and update_config with a start beyond the
\* next block
NextLater ==
    \/ NextWith(TermsInputs)
    \/ \E caller \in TermsInputs.callers :
           update_config(caller, None, Some(now + 2), None, None, None)

SpecLater == Init /\ [][NextLater]_vars

\* C32: in every reachable state every stored recipient has
\* start + cliff_duration + vesting_duration at most the largest timestamp, so that
\* start + cliff_duration, which collectable_amount adds, is at most it too.
C32_RecipientEndFitsTimestamp ==
    \A a \in DOMAIN recipients :
        /\ start + recipients[a].cliff_duration + recipients[a].vesting_duration
               <= TimestampMax
        /\ start + recipients[a].cliff_duration <= TimestampMax


\* C33: for every stored recipient with valid terms and every timestamp
\* collectable_amount completes: neither the narrowing of the vested quotient to a
\* Balance nor the sum of the TGE part and the vested part overflows.
C33_CollectableAmountCompletes ==
    [][\A address \in DOMAIN recipients, t \in 0..TimestampMax :
          (/\ collectable_amount_call(address, t)
           /\ validate_airdrop_calculation_variables(
                  start, recipients[address].collectable_at_tge_percentage,
                  recipients[address].cliff_duration,
                  recipients[address].vesting_duration) = "Ok") =>
              last'.result # "Panic"]_vars


\* C34: in every reachable state the stored start, default percentage, default cliff
\* and default vesting pass the validation, so that update_config called by the admin
\* with no field supplied returns Ok.
C34_StoredDefaultsAreValid ==
    /\ validate_airdrop_calculation_variables(
           start, default_collectable_at_tge_percentage,
           default_cliff_duration, default_vesting_duration) = "Ok"
    /\ update_config_result(admin, None, None, None, None, None) = "Ok"


\* the fields passed to update_recipient
RecipientFields == Option(Percentages) \X Option(Durations) \X Option(Durations)

\* C35: recipient_add, recipient_subtract and update_recipient check the caller
\* first, the window second and the recipient or the amount last: a caller that is
\* neither the admin nor a sub-admin gets Unauthorised whatever the time, the address
\* and the amount, and an authorised caller at now >= start gets "Airdrop has
\* started" whatever the address and the amount.
C35_ChecksRunInOrder ==
    \A caller \in Accounts, address \in Accounts :
        LET expected == IF ~authorise_to_update_recipient(caller)
                        THEN "Unauthorised"
                        ELSE "Airdrop has started"
        IN  (~authorise_to_update_recipient(caller) \/ now >= start) =>
                /\ \A amount \in Amounts :
                       /\ recipient_add_result(caller, address, amount) = expected
                       /\ recipient_subtract_result(caller, address, amount) = expected
                /\ \A fields \in RecipientFields :
                       update_recipient_result(caller, address, fields[1], fields[2],
                                               fields[3]) = expected

\* the window has started, a sub-admin and an outsider both call recipient_subtract
\* for an address without a recipient and with the largest amount
C35_Witness ==
    /\ now >= start
    /\ \E caller \in sub_admins_mapping \ {admin}, outsider \in Accounts,
          address \in Accounts \ DOMAIN recipients :
           /\ ~authorise_to_update_recipient(outsider)
           /\ recipient_subtract_result(outsider, address, BalanceMax) = "Unauthorised"
           /\ recipient_subtract_result(caller, address, BalanceMax) = "Airdrop has started"


\* C36: a successful collect at time now leaves the caller's collected at
\* min(total_amount, TGE part + part vested by now), whatever the caller collected
\* before; the collectable amount at the same time is then 0 and a repeated collect
\* returns "Amount is zero".
C36_CollectIsPathIndependent ==
    [][\/ UNCHANGED <<recipients, balance>>
       \/ \A caller \in DOMAIN recipients, token_ok \in BOOLEAN :
              (/\ collect(caller, token_ok)
               /\ collect_result(caller, token_ok) = "Ok") =>
                  /\ now >= start
                  /\ recipients'[caller].collected =
                         reference([recipients[caller] EXCEPT !.collected = 0], now)
                  /\ collectable_amount(caller, now)' = Value(0)
                  /\ \A again \in BOOLEAN :
                         collect_result(caller, again)' = "Amount is zero"]_vars

\* a recipient's collect succeeded after that recipient had collected before
C36_Witness ==
    /\ last.op = "collect"
    /\ last.result = "Ok"
    /\ last.caller \in DOMAIN recipients
    /\ last.ret > 0
    /\ recipients[last.caller].collected > last.ret
    /\ collect_result(last.caller, TRUE) = "Amount is zero"


-----------------------------------------------------------------------------
(* Progress: the clock advances and the recipients keep calling collect       *)

\* The block timestamp keeps advancing, and a recipient whose collect would succeed
\* with a willing token does eventually call it.
SpecFair ==
    /\ Spec
    /\ WF_vars(Tick)
    /\ \A address \in RecipientAddresses : WF_vars(collect(address, TRUE))

\* the recipient has not collected all of its total_amount
Owed(address) ==
    /\ address \in DOMAIN recipients
    /\ recipients[address].total_amount > recipients[address].collected

\* the recipient has collected exactly its total_amount
Settled(address) ==
    /\ address \in DOMAIN recipients
    /\ recipients[address].collected = recipients[address].total_amount

\* the timestamp from which all of the recipient's total_amount is unlocked
vesting_end(address) ==
    start + recipients[address].cliff_duration + recipients[address].vesting_duration

\* C37: with a clock that keeps advancing and recipients that keep calling collect,
\* every recipient with total_amount > collected eventually has collected =
\* total_amount, unless its vesting ends after the last timestamp the clock reaches
\* here; and whenever now is at or past the end of its vesting, its collect succeeds
\* with a willing token.
C37_EveryRecipientIsPaidInFull ==
    \A address \in RecipientAddresses :
        /\ Owed(address) ~> (Settled(address) \/ (Owed(address) /\ vesting_end(address) > MaxNow))
        /\ []((Owed(address) /\ now >= vesting_end(address)) =>
                  collect_result(address, TRUE) = "Ok")

====
